---- MODULE Spec2Model ----
(***************************************************************************)
(* Model of dental-mcp-http-server.py: a JSON-RPC "MCP tool" service that  *)
(* reads and rewrites the events of an external calendar.                  *)
(*                                                                         *)
(* Text is a sequence of one-character strings, so that lower-casing,      *)
(* substring search and concatenation are computed and not assumed.        *)
(* An instant is a number of minutes; a calendar day d spans the local     *)
(* minutes d*1440 .. d*1440+1439.  An ISO-8601 string with offset is the   *)
(* record [timed, local, off]: the wall-clock minute written in the string *)
(* and the UTC offset written after it (timed = FALSE: the event has only  *)
(* a 'date' key, no 'dateTime').  An aware datetime is [utc, off].         *)
(***************************************************************************)
EXTENDS Integers, Sequences, FiniteSets, TLC

\* ------------------------------------------------------------------ bounds
\* Events already in the calendar when the service starts.
MaxExternal == 2

\* ------------------------------------------------------------------- text
DigitChars == <<"0", "1", "2", "3", "4", "5", "6", "7", "8", "9">>

IsDigit(c) == \E i \in 1..10 : DigitChars[i] = c

DigitVal(c) == (CHOOSE i \in 1..10 : DigitChars[i] = c) - 1

\* str.lower() on the letters the model's texts use.
LowerChar(c) ==
  CASE c = "A" -> "a" [] c = "C" -> "c" [] c = "E" -> "e" [] c = "G" -> "g"
    [] c = "I" -> "i" [] c = "J" -> "j" [] c = "L" -> "l" [] c = "N" -> "n"
    [] c = "R" -> "r" [] c = "S" -> "s" [] c = "U" -> "u" [] c = "D" -> "d"
    [] OTHER -> c

Lower(s) == [i \in 1..Len(s) |-> LowerChar(s[i])]

\* Python's `needle in hay` on strings.
Contains(hay, needle) ==
  \E i \in 0..(Len(hay) - Len(needle)) :
    \A j \in 1..Len(needle) : hay[i + j] = needle[j]

\* ------------------------------------------------------------ clock times
\* strptime(s, "%H:%M"): one or two digits, a colon, one or two digits,
\* hour below 24 and minute below 60; -1 stands for ValueError.
NumberOf(ds) == IF Len(ds) = 1 THEN DigitVal(ds[1])
                ELSE 10 * DigitVal(ds[1]) + DigitVal(ds[2])

ParseHM(s) ==
  LET colons == {i \in 1..Len(s) : s[i] = ":"}
  IN  IF Cardinality(colons) # 1 THEN -1
      ELSE LET k == CHOOSE i \in colons : TRUE
               hs == SubSeq(s, 1, k - 1)
               ms == SubSeq(s, k + 1, Len(s))
           IN  IF /\ Len(hs) \in 1..2
                  /\ Len(ms) \in 1..2
                  /\ \A i \in 1..Len(hs) : IsDigit(hs[i])
                  /\ \A i \in 1..Len(ms) : IsDigit(ms[i])
                  /\ NumberOf(hs) < 24
                  /\ NumberOf(ms) < 60
               THEN 60 * NumberOf(hs) + NumberOf(ms)
               ELSE -1

\* strftime("%H:%M") of a minute of the day: always zero-padded.
FormatHM(m) ==
  <<DigitChars[((m \div 60) \div 10) + 1], DigitChars[((m \div 60) % 10) + 1], ":",
    DigitChars[((m % 60) \div 10) + 1], DigitChars[((m % 60) % 10) + 1]>>

BUSINESS_HOURS_START == <<"0", "9", ":", "0", "0">>

BUSINESS_HOURS_END == <<"1", "7", ":", "0", "0">>

\* timedelta(minutes=30): the slot and the appointment length.
SlotMinutes == 30

\* ------------------------------------------------------------------ dates
\* datetime.strptime(s, "%Y-%m-%d"): the day number, or -1 for ValueError.
\* Day 1 is a winter date (CET), day 3 a summer date (CEST).
ParseYmd(s) ==
  CASE s = "2024-01-15" -> 1
    [] s = "2024-07-01" -> 3
    [] OTHER -> -1

\* parse_date_flexible: also the formats %d-%m-%Y, %d/%m/%Y and %Y/%m/%d.
ParseDateFlexible(s) ==
  CASE s = "15-01-2024" -> 1
    [] s = "2024/07/01" -> 3
    [] OTHER -> ParseYmd(s)

\* Europe/Amsterdam: UTC+60 before the change to summer time (between day 1
\* and day 3, at 01:00 UTC of day 2), UTC+120 after it.
DstDay == 2

AmsOffsetOfLocal(local) == IF local < DstDay * 1440 + 120 THEN 60 ELSE 120

AmsOffsetOfUtc(utc) == IF utc < DstDay * 1440 + 60 THEN 60 ELSE 120

\* amsterdam_tz.localize(naive)
Localize(local) == [utc |-> local - AmsOffsetOfLocal(local), off |-> AmsOffsetOfLocal(local)]

\* aware.astimezone(amsterdam_tz)
ToAmsterdam(dt) == [utc |-> dt.utc, off |-> AmsOffsetOfUtc(dt.utc)]

\* aware.astimezone(pytz.UTC)
ToUtc(dt) == [utc |-> dt.utc, off |-> 0]

\* aware.isoformat()
IsoFormat(dt) == [timed |-> TRUE, local |-> dt.utc + dt.off, off |-> dt.off]

\* datetime.fromisoformat(s.replace('Z', '+00:00'))
FromIso(s) == [utc |-> s.local - s.off, off |-> s.off]

\* aware.strftime('%H:%M'): the wall clock of the datetime's own offset.
StrfHM(dt) == FormatHM((dt.utc + dt.off) % 1440)

\* The 'date'-only value of an all-day event starting on day d.
DateOnly(d) == [timed |-> FALSE, local |-> d * 1440, off |-> 0]

\* ----------------------------------------------------------------- events
\* An event of the external calendar: id, summary (title), description (a
\* sequence of text pieces), start and end (ISO values), attendees.
Event(id, summary, description, start, end, attendees) ==
  [id |-> id, summary |-> summary, description |-> description,
   start |-> start, end |-> end, attendees |-> attendees]

\* The instant the calendar gives a start or end value: a 'dateTime' by its
\* own offset, a 'date' as midnight in the calendar's time zone.
InstantOf(v) == IF v.timed THEN v.local - v.off
                ELSE v.local - AmsOffsetOfLocal(v.local)

\* orderBy='startTime'; equal starts in order of creation.
Earlier(a, b) ==
  \/ InstantOf(a.start) < InstantOf(b.start)
  \/ InstantOf(a.start) = InstantOf(b.start) /\ a.id < b.id

RECURSIVE SortByStart(_)
SortByStart(S) ==
  IF S = {} THEN <<>>
  ELSE LET first == CHOOSE a \in S : \A b \in S \ {a} : Earlier(a, b)
       IN  <<first>> \o SortByStart(S \ {first})

\* events().list(timeMin, timeMax, singleEvents=True, orderBy='startTime'):
\* the events that end after timeMin and start before timeMax.
ListEvents(evs, timeMin, timeMax) ==
  SortByStart({evs[i] : i \in {j \in 1..Len(evs) :
     /\ InstantOf(evs[j]["end"]) > timeMin.utc
     /\ InstantOf(evs[j].start) < timeMax.utc}})

\* The mark a cancellation puts in front of the title (lines 736, 838).
CancelPrefix ==
  <<"[", "G", "E", "A", "N", "N", "U", "L", "E", "E", "R", "D", "]", " ">>

\* An external calendar call issued by the service and whether it succeeded.
Call(op, ok) == [op |-> op, ok |-> ok]

\* ---------------------------------------------------- get_calendar_service
\* calendar_service and credentials are 0 (None, no stored credentials) or
\* the generation of the stored credentials the handle was built from.  The
\* value returned is also the value left in the cache.
GetCalendarService(cached, creds) ==
  IF cached = 0 THEN creds ELSE cached

\* ------------------------------------------------------------- slot finder
OverlapsTouching(slot_start, slot_end, event_start, event_end) ==
  slot_start.utc <= event_end.utc /\ slot_end.utc >= event_start.utc

\* current_time < event_end and slot_end > event_start
Overlaps(slot_start, slot_end, event_start, event_end) ==
  slot_start.utc < event_end.utc /\ slot_end.utc > event_start.utc

Plus(dt, minutes) == [utc |-> dt.utc + minutes, off |-> dt.off]

\* An inner loop that passes over events marked as cancelled.
RECURSIVE ConflictScanSkippingCancelled(_, _, _, _)
ConflictScanSkippingCancelled(current_time, slot_end, evs, i) ==
  IF i > Len(evs) THEN "free"
  ELSE IF /\ Len(evs[i].summary) >= Len(CancelPrefix)
          /\ SubSeq(evs[i].summary, 1, Len(CancelPrefix)) = CancelPrefix
       THEN ConflictScanSkippingCancelled(current_time, slot_end, evs, i + 1)
  ELSE IF ~evs[i].start.timed \/ ~evs[i]["end"].timed THEN "KeyError"
  ELSE IF Overlaps(current_time, slot_end, FromIso(evs[i].start), FromIso(evs[i]["end"]))
       THEN "conflict"
  ELSE ConflictScanSkippingCancelled(current_time, slot_end, evs, i + 1)

\* An inner loop that passes over events without 'dateTime'.
RECURSIVE ConflictScanSkippingUntimed(_, _, _, _)
ConflictScanSkippingUntimed(current_time, slot_end, evs, i) ==
  IF i > Len(evs) THEN "free"
  ELSE IF ~evs[i].start.timed \/ ~evs[i]["end"].timed
       THEN ConflictScanSkippingUntimed(current_time, slot_end, evs, i + 1)
  ELSE IF Overlaps(current_time, slot_end, FromIso(evs[i].start), FromIso(evs[i]["end"]))
       THEN "conflict"
  ELSE ConflictScanSkippingUntimed(current_time, slot_end, evs, i + 1)

\* The inner loop over the fetched events for one slot: "conflict" at the
\* first overlapping event (break), "KeyError" on reaching an event without
\* 'dateTime', "free" when the list is exhausted.
RECURSIVE ConflictScan(_, _, _, _)
ConflictScan(current_time, slot_end, evs, i) ==
  IF i > Len(evs) THEN "free"
  ELSE IF ~evs[i].start.timed \/ ~evs[i]["end"].timed THEN "KeyError"
  ELSE IF Overlaps(current_time, slot_end, FromIso(evs[i].start), FromIso(evs[i]["end"]))
       THEN "conflict"
  ELSE ConflictScan(current_time, slot_end, evs, i + 1)

Slot(current_time) == [time |-> StrfHM(current_time), datetime |-> IsoFormat(current_time)]

WhileInclusive(current_time, end_time) == current_time.utc <= end_time.utc

While(current_time, end_time) == current_time.utc < end_time.utc

\* while current_time < end_time: ... current_time += timedelta(minutes=30)
RECURSIVE SlotLoop(_, _, _)
SlotLoop(current_time, end_time, evs) ==
  IF ~While(current_time, end_time) THEN [raised |-> FALSE, slots |-> <<>>]
  ELSE LET c == ConflictScan(current_time, Plus(current_time, SlotMinutes), evs, 1)
       IN  IF c = "KeyError" THEN [raised |-> TRUE, slots |-> <<>>]
           ELSE LET rest == SlotLoop(Plus(current_time, SlotMinutes), end_time, evs)
                IN  IF rest.raised THEN rest
                    ELSE [raised |-> FALSE,
                          slots |-> (IF c = "free" THEN <<Slot(current_time)>> ELSE <<>>)
                                    \o rest.slots]

\* check_available_slots(args): service is the handle get_calendar_service
\* returned, list_ok whether the events().list call succeeds.  The outcome
\* is a result (raised = FALSE, with available_slots) or an HTTPException
\* (raised = TRUE); calls are the external calls issued.
CheckAvailableSlots(service, evs, date_str, list_ok) ==
  LET fail(calls) == [raised |-> TRUE, available_slots |-> <<>>, calls |-> calls]
  IN  IF date_str = "" THEN fail(<<>>)
      ELSE IF service = 0 THEN fail(<<>>)
      ELSE IF ParseYmd(date_str) < 0 THEN fail(<<>>)
      ELSE LET day == ParseYmd(date_str)
               start_time == Localize(day * 1440 + ParseHM(BUSINESS_HOURS_START))
               end_time == Localize(day * 1440 + ParseHM(BUSINESS_HOURS_END))
           IN  IF ~list_ok THEN fail(<<Call("list", FALSE)>>)
               ELSE LET r == SlotLoop(start_time, end_time, ListEvents(evs, start_time, end_time))
                    IN  IF r.raised THEN fail(<<Call("list", TRUE)>>)
                        ELSE [raised |-> FALSE, available_slots |-> r.slots,
                              calls |-> <<Call("list", TRUE)>>]

\* ----------------------------------------------------- appointment matcher
\* The names bound at module level (lines 19-46 and the imports).  A name
\* read inside a function and bound nowhere raises NameError.
ModuleGlobals ==
  {"SCOPES", "app", "logger", "calendar_service", "CLINIC_TIMEZONE",
   "BUSINESS_HOURS_START", "BUSINESS_HOURS_END", "WORKING_DAYS"}

NameDefined(n) == n \in ModuleGlobals

NullEvent == Event(0, <<>>, <<>>, DateOnly(0), DateOnly(0), <<>>)

\* What find_appointment_by_patient_info returns: None (found = FALSE) or
\* an event, with '_multiple_matches' set (> 0) when several were matched.
NoMatch == [found |-> FALSE, event |-> NullEvent, multiple_matches |-> 0]

\* The time test applied to a name match: no time given accepts; otherwise
\* the event needs a 'dateTime' whose Amsterdam wall clock prints as the
\* given text.
TimeAccepts(event, appointment_time) ==
  \/ appointment_time = <<>>
  \/ /\ event.start.timed
     /\ StrfHM(ToAmsterdam(FromIso(event.start))) = appointment_time

RECURSIVE AttendeeMatches(_, _, _, _)
AttendeeMatches(event, patient_name, appointment_time, k) ==
  IF k > Len(event.attendees) THEN <<>>
  ELSE (IF /\ \/ Contains(Lower(event.attendees[k].email), Lower(patient_name))
              \/ Contains(Lower(event.attendees[k].displayName), Lower(patient_name))
           /\ TimeAccepts(event, appointment_time)
        THEN <<event>> ELSE <<>>)
       \o AttendeeMatches(event, patient_name, appointment_time, k + 1)

\* The loop of lines 129-162: an event is appended once for its summary and
\* once more for every attendee that matches.
RECURSIVE MatchLoop(_, _, _, _)
MatchLoop(evs, patient_name, appointment_time, i) ==
  IF i > Len(evs) THEN <<>>
  ELSE (IF /\ Contains(Lower(evs[i].summary), Lower(patient_name))
           /\ TimeAccepts(evs[i], appointment_time)
        THEN <<evs[i]>> ELSE <<>>)
       \o AttendeeMatches(evs[i], patient_name, appointment_time, 1)
       \o MatchLoop(evs, patient_name, appointment_time, i + 1)

\* Lines 164-172.
Disambiguate(matches) ==
  IF Len(matches) = 1 THEN [found |-> TRUE, event |-> matches[1], multiple_matches |-> 0]
  ELSE IF Len(matches) > 1
       THEN [found |-> TRUE, event |-> matches[1], multiple_matches |-> Len(matches)]
  ELSE NoMatch

\* find_appointment_by_patient_info: every exception of the body is caught
\* and turned into None.  Building the arguments of events().list reads
\* CALENDAR_ID before any request is sent.
FindAppointment(service, evs, patient_name, appointment_date, appointment_time, list_ok) ==
  IF ParseYmd(appointment_date) < 0 THEN [match |-> NoMatch, calls |-> <<>>]
  ELSE IF service = 0 THEN [match |-> NoMatch, calls |-> <<>>]
  ELSE IF ~NameDefined("CALENDAR_ID") THEN [match |-> NoMatch, calls |-> <<>>]
  ELSE IF ~list_ok THEN [match |-> NoMatch, calls |-> <<Call("list", FALSE)>>]
  ELSE LET day == ParseYmd(appointment_date)
           start_datetime == ToUtc(Localize(day * 1440))
           end_datetime == ToUtc(Localize((day + 1) * 1440))
       IN  [match |-> Disambiguate(MatchLoop(ListEvents(evs, start_datetime, end_datetime),
                                             patient_name, appointment_time, 1)),
            calls |-> <<Call("list", TRUE)>>]

\* ------------------------------------------------------------ tool results
\* The JSON object a tool returns; success is "true", "false" or "none" (no
\* such key), error "" when there is no such key.  appointments and count
\* are what list_appointments returns, details the event
\* get_appointment_details returns, tools the names tools/list returns.
NoBody ==
  [success |-> "none", error |-> "", multiple_matches |-> FALSE, event_id |-> 0,
   available_slots |-> <<>>, suggested_times |-> <<>>, found_time |-> <<>>,
   appointments |-> <<>>, count |-> 0, details |-> <<>>, tools |-> {}]

Failure(error) == [NoBody EXCEPT !.success = "false", !.error = error]

\* What a tool call comes to: raised (an exception leaves the tool) or a
\* body returned; the calendar afterwards; the external calls issued; the
\* cached service handle afterwards; what the matcher returned, if called.
Outcome(raised, body, evs, calls, cache, matched) ==
  [raised |-> raised, body |-> body, events |-> evs, calls |-> calls,
   cache |-> cache, matched |-> matched]

\* ---------------------------------------------------------- book_appointment
AfspraakPrefix == <<"A", "f", "s", "p", "r", "a", "a", "k", " ", "-", " ">>

AppointmentEndLong(start_datetime) == Plus(start_datetime, 2 * SlotMinutes)

\* end_datetime = start_datetime + timedelta(minutes=30)
AppointmentEnd(start_datetime) == Plus(start_datetime, SlotMinutes)

\* Lines 624-652: the event book_appointment sends, with the id the
\* calendar gives it.
BookedEvent(id, args) ==
  LET start_datetime == Localize(ParseYmd(args.date) * 1440 + ParseHM(args.time))
      end_datetime == AppointmentEnd(start_datetime)
  IN  Event(id,
            AfspraakPrefix \o args.patient_name,
            <<"Type: ">> \o args.appointment_type \o <<"\nPatient: ">> \o args.patient_name
              \o <<"\nEmail: ">> \o args.patient_email \o <<"\nTelefoon: ">>
              \o (IF args.patient_phone = <<>> THEN <<"Niet opgegeven">>
                  ELSE args.patient_phone),
            IsoFormat(start_datetime), IsoFormat(end_datetime),
            <<[email |-> args.patient_email, displayName |-> args.patient_name]>>)

\* A booking that looks at the calendar first and refuses a taken interval:
\* what book_appointment does not do.
BookAppointmentRechecked(cached, creds, evs, args, insert_ok) ==
  IF \/ args.patient_name = <<>> \/ args.patient_email = <<>> \/ args.date = ""
     \/ args.time = <<>> \/ args.appointment_type = <<>>
  THEN Outcome(TRUE, Failure("All fields are required"), evs, <<>>, cached, NoMatch)
  ELSE LET service == GetCalendarService(cached, creds)
       IN  IF ParseYmd(args.date) < 0 \/ ParseHM(args.time) < 0
           THEN Outcome(TRUE, Failure("ValueError"), evs, <<>>, service, NoMatch)
           ELSE IF service = 0
           THEN Outcome(TRUE, Failure("AttributeError"), evs, <<>>, service, NoMatch)
           ELSE IF \E i \in 1..Len(evs) :
                     /\ evs[i].start.timed /\ evs[i]["end"].timed
                     /\ Overlaps(FromIso(BookedEvent(0, args).start),
                                 FromIso(BookedEvent(0, args)["end"]),
                                 FromIso(evs[i].start), FromIso(evs[i]["end"]))
           THEN Outcome(TRUE, Failure("Time slot not available"), evs,
                        <<Call("list", TRUE)>>, service, NoMatch)
           ELSE IF ~insert_ok
           THEN Outcome(TRUE, Failure("HttpError"), evs, <<Call("insert", FALSE)>>, service, NoMatch)
           ELSE Outcome(FALSE,
                        [NoBody EXCEPT !.success = "true", !.event_id = Len(evs) + 1],
                        Append(evs, BookedEvent(Len(evs) + 1, args)),
                        <<Call("insert", TRUE)>>, service, NoMatch)

\* Lines 609-661: validation, the client handle, the parse of date and time
\* and the one events().insert call; the calendar is not read.
BookAppointment(cached, creds, evs, args, insert_ok) ==
  IF \/ args.patient_name = <<>> \/ args.patient_email = <<>> \/ args.date = ""
     \/ args.time = <<>> \/ args.appointment_type = <<>>
  THEN Outcome(TRUE, Failure("All fields are required"), evs, <<>>, cached, NoMatch)
  ELSE LET service == GetCalendarService(cached, creds)
       IN  IF ParseYmd(args.date) < 0 \/ ParseHM(args.time) < 0
           THEN Outcome(TRUE, Failure("ValueError"), evs, <<>>, service, NoMatch)
           ELSE IF service = 0
           THEN Outcome(TRUE, Failure("AttributeError"), evs, <<>>, service, NoMatch)
           ELSE IF ~insert_ok
           THEN Outcome(TRUE, Failure("HttpError"), evs, <<Call("insert", FALSE)>>, service, NoMatch)
           ELSE Outcome(FALSE,
                        [NoBody EXCEPT !.success = "true", !.event_id = Len(evs) + 1],
                        Append(evs, BookedEvent(Len(evs) + 1, args)),
                        <<Call("insert", TRUE)>>, service, NoMatch)

\* ------------------------------------------------ cancel_appointment_by_patient
DefaultReason == <<"Geannuleerd door patient">>

\* A cancellation that marks an event once and leaves a marked event alone.
CancelledEventOnce(event, reason) ==
  IF /\ Len(event.summary) >= Len(CancelPrefix)
     /\ SubSeq(event.summary, 1, Len(CancelPrefix)) = CancelPrefix
  THEN event
  ELSE [event EXCEPT !.summary = CancelPrefix \o event.summary,
                     !.description = event.description \o <<"\n\nReden annulering: ">> \o reason]

\* Lines 736-737 and 838-839.
CancelledEvent(event, reason) ==
  [event EXCEPT !.summary = CancelPrefix \o event.summary,
                !.description = event.description \o <<"\n\nReden annulering: ">> \o reason]

\* Lines 816-831 and 896-911: the answer when the matcher flagged several.
MultipleMatchesAnswer(evs, service, found, calls) ==
  IF ~found.event.start.timed
  THEN Outcome(FALSE, Failure("KeyError"), evs, calls, service, found)
  ELSE Outcome(FALSE,
               [NoBody EXCEPT !.success = "false", !.multiple_matches = TRUE,
                  !.found_time = StrfHM(ToAmsterdam(FromIso(found.event.start)))],
               evs, calls, service, found)

CancelAppointmentByPatient(cached, creds, evs, args, list_ok, update_ok) ==
  IF args.patient_name = <<>> \/ args.date = ""
  THEN Outcome(FALSE, Failure("Patient name and appointment date are required"),
               evs, <<>>, cached, NoMatch)
  ELSE LET service == GetCalendarService(cached, creds)
           f == FindAppointment(service, evs, args.patient_name, args.date, args.time, list_ok)
           found == f.match
       IN  IF ~found.found
           THEN Outcome(FALSE, Failure("Appointment not found"), evs, f.calls, service, found)
           ELSE IF found.multiple_matches > 1
           THEN MultipleMatchesAnswer(evs, service, found, f.calls)
           ELSE IF ~update_ok
           THEN Outcome(FALSE, Failure("HttpError"), evs, f.calls \o <<Call("update", FALSE)>>,
                        service, found)
           ELSE Outcome(FALSE, [NoBody EXCEPT !.success = "true"],
                        [evs EXCEPT ![found.event.id] =
                           CancelledEvent(found.event,
                                          IF args.reason = <<>> THEN DefaultReason
                                          ELSE args.reason)],
                        f.calls \o <<Call("update", TRUE)>>, service, found)

\* ---------------------------------------------------------- cancel_appointment
\* Lines 724-745: cancellation by event id.  No tool name is dispatched to
\* this function (cancel_appointment of tools/call is the by-patient one);
\* it is what a caller holding the event_id of a booking runs.
CancelAppointment(cached, creds, evs, args, get_ok, update_ok) ==
  IF args.event_id = 0
  THEN Outcome(TRUE, Failure("Event ID is required"), evs, <<>>, cached, NoMatch)
  ELSE LET service == GetCalendarService(cached, creds)
       IN  IF service = 0
           THEN Outcome(TRUE, Failure("AttributeError"), evs, <<>>, service, NoMatch)
           ELSE IF ~get_ok \/ args.event_id \notin 1..Len(evs)
           THEN Outcome(TRUE, Failure("HttpError"), evs, <<Call("get", FALSE)>>, service, NoMatch)
           ELSE IF ~update_ok
           THEN Outcome(TRUE, Failure("HttpError"), evs,
                        <<Call("get", TRUE), Call("update", FALSE)>>, service, NoMatch)
           ELSE Outcome(FALSE, [NoBody EXCEPT !.success = "true"],
                        [evs EXCEPT ![args.event_id] =
                           CancelledEvent(evs[args.event_id],
                                          IF args.reason = <<>> THEN DefaultReason
                                          ELSE args.reason)],
                        <<Call("get", TRUE), Call("update", TRUE)>>, service, NoMatch)

\* -------------------------------------------- reschedule_appointment_by_patient
\* json.loads(x) raises TypeError unless x is a str, bytes or bytearray.
JsonLoadsRaises(type) == type \notin {"str", "bytes", "bytearray"}

\* The type of check_available_slots(...)["available_slots"] (line 593-602).
AvailableSlotsType == "list"

RECURSIVE SlotTimes(_)
SlotTimes(slots) ==
  IF slots = <<>> THEN <<>> ELSE <<Head(slots).time>> \o SlotTimes(Tail(slots))

FirstFive(seq) == SubSeq(seq, 1, IF Len(seq) < 5 THEN Len(seq) ELSE 5)

\* Lines 933-948: the 'start' and 'end' the patch carries, in UTC.
PatchedEvent(event, new_date, new_time) ==
  LET new_datetime == ParseDateFlexible(new_date) * 1440 + ParseHM(new_time)
      new_datetime_utc == ToUtc(Localize(new_datetime))
      end_datetime_utc == Plus(new_datetime_utc, SlotMinutes)
  IN  [event EXCEPT !.start = IsoFormat(new_datetime_utc),
                    !["end"] = IsoFormat(end_datetime_utc)]

RescheduleAppointmentByPatient(cached, creds, evs, args, list_ok, slots_ok, patch_ok) ==
  IF \/ args.patient_name = <<>> \/ args.date = ""
     \/ args.new_date = "" \/ args.new_time = <<>>
  THEN Outcome(FALSE, Failure("Missing required parameters"), evs, <<>>, cached, NoMatch)
  ELSE LET service == GetCalendarService(cached, creds)
           f == FindAppointment(service, evs, args.patient_name, args.date, args.time, list_ok)
           found == f.match
       IN  IF ~found.found
           THEN Outcome(FALSE, Failure("Appointment not found"), evs, f.calls, service, found)
           ELSE IF found.multiple_matches > 1
           THEN MultipleMatchesAnswer(evs, service, found, f.calls)
           ELSE LET available == CheckAvailableSlots(service, evs, args.new_date, slots_ok)
                    calls == f.calls \o available.calls
                IN  IF available.raised
                    THEN Outcome(FALSE, Failure("Failed to check available slots"),
                                 evs, calls, service, found)
                    ELSE IF JsonLoadsRaises(AvailableSlotsType)
                    THEN Outcome(FALSE, Failure("TypeError"), evs, calls, service, found)
                    ELSE IF \A k \in 1..Len(available.available_slots) :
                              available.available_slots[k].time # args.new_time
                    THEN Outcome(FALSE,
                                 [NoBody EXCEPT !.success = "false",
                                    !.error = "Time slot not available",
                                    !.available_slots = available.available_slots,
                                    !.suggested_times =
                                       FirstFive(SlotTimes(available.available_slots))],
                                 evs, calls, service, found)
                    ELSE IF ~patch_ok
                    THEN Outcome(FALSE, Failure("HttpError"), evs, calls \o <<Call("patch", FALSE)>>,
                                 service, found)
                    ELSE Outcome(FALSE, [NoBody EXCEPT !.success = "true"],
                                 [evs EXCEPT ![found.event.id] =
                                    PatchedEvent(evs[found.event.id], args.new_date,
                                                 args.new_time)],
                                 calls \o <<Call("patch", TRUE)>>, service, found)

\* -------------------------------------------------------- list_appointments
\* Lines 663-702: the timed events from the start date to the end of the end
\* date; an event with a 'dateTime' start and no 'dateTime' end is a KeyError.
ListAppointments(cached, creds, evs, args, list_ok) ==
  IF args.start_date = "" \/ args.end_date = ""
  THEN Outcome(TRUE, Failure("Start date and end date are required"), evs, <<>>,
               cached, NoMatch)
  ELSE LET service == GetCalendarService(cached, creds)
       IN  IF ParseYmd(args.start_date) < 0 \/ ParseYmd(args.end_date) < 0
           THEN Outcome(TRUE, Failure("ValueError"), evs, <<>>, service, NoMatch)
           ELSE IF service = 0
           THEN Outcome(TRUE, Failure("AttributeError"), evs, <<>>, service, NoMatch)
           ELSE IF ~list_ok
           THEN Outcome(TRUE, Failure("HttpError"), evs, <<Call("list", FALSE)>>, service, NoMatch)
           ELSE LET start_datetime == Localize(ParseYmd(args.start_date) * 1440)
                    end_datetime == Localize((ParseYmd(args.end_date) + 1) * 1440)
                    items == ListEvents(evs, start_datetime, end_datetime)
                    appointments == SelectSeq(items, LAMBDA e : e.start.timed)
                IN  IF \E k \in 1..Len(appointments) : ~appointments[k]["end"].timed
                    THEN Outcome(TRUE, Failure("KeyError"), evs, <<Call("list", TRUE)>>,
                                 service, NoMatch)
                    ELSE Outcome(FALSE,
                                 [NoBody EXCEPT !.appointments = appointments,
                                                !.count = Len(appointments)],
                                 evs, <<Call("list", TRUE)>>, service, NoMatch)

\* -------------------------------------------------- get_appointment_details
\* A lookup that sends whatever id it was given.
GetAppointmentDetailsUnvalidated(cached, creds, evs, args, get_ok) ==
  LET service == GetCalendarService(cached, creds)
  IN  IF service = 0
      THEN Outcome(TRUE, Failure("AttributeError"), evs, <<>>, service, NoMatch)
      ELSE IF ~get_ok \/ args.event_id \notin 1..Len(evs)
      THEN Outcome(TRUE, Failure("HttpError"), evs, <<Call("get", FALSE)>>, service, NoMatch)
      ELSE Outcome(FALSE,
                   [NoBody EXCEPT !.event_id = args.event_id,
                                  !.details = <<evs[args.event_id]>>],
                   evs, <<Call("get", TRUE)>>, service, NoMatch)

\* Lines 704-722.  events().get fails for an id the calendar does not hold.
GetAppointmentDetails(cached, creds, evs, args, get_ok) ==
  IF args.event_id = 0
  THEN Outcome(TRUE, Failure("Event ID is required"), evs, <<>>, cached, NoMatch)
  ELSE LET service == GetCalendarService(cached, creds)
       IN  IF service = 0
           THEN Outcome(TRUE, Failure("AttributeError"), evs, <<>>, service, NoMatch)
           ELSE IF ~get_ok \/ args.event_id \notin 1..Len(evs)
           THEN Outcome(TRUE, Failure("HttpError"), evs, <<Call("get", FALSE)>>, service, NoMatch)
           ELSE Outcome(FALSE,
                        [NoBody EXCEPT !.event_id = args.event_id,
                                       !.details = <<evs[args.event_id]>>],
                        evs, <<Call("get", TRUE)>>, service, NoMatch)

\* ------------------------------------------------------- handle_mcp_request
\* The six names the tools/call branch dispatches on (lines 508-519), the
\* same six tools/list describes (lines 414-500).
ToolNames ==
  {"check_available_slots", "book_appointment", "list_appointments",
   "get_appointment_details", "cancel_appointment", "reschedule_appointment"}

\* A tools/call branch that answers with "id": null.
ToolResponseNullId(id, out) ==
  IF out.raised
  THEN [kind |-> "error", id |-> 0, code |-> -32603, body |-> out.body]
  ELSE [kind |-> "result", id |-> 0, code |-> 0, body |-> out.body]

\* The tools/call branch: a returned body becomes the JSON-RPC result, an
\* exception the JSON-RPC error -32603.
ToolResponse(id, out) ==
  IF out.raised
  THEN [kind |-> "error", id |-> id, code |-> -32603, body |-> out.body]
  ELSE [kind |-> "result", id |-> id, code |-> 0, body |-> out.body]

\* Line 521: a name that is none of the six raises inside the try block.
UnknownTool(evs, cached) ==
  Outcome(TRUE, Failure("400: Unknown tool"), evs, <<>>, cached, NoMatch)

\* params.arguments is null: args.get(...) raises AttributeError.  The two
\* by-patient tools catch it in their own try block and return a body (lines
\* 858-864, 968-974); from the other four it leaves the tool.
NullArguments(name, evs, cached) ==
  Outcome(name \notin {"cancel_appointment", "reschedule_appointment"},
          Failure("AttributeError"), evs, <<>>, cached, NoMatch)

\* An exception leaving handle_mcp_request or request.json().
Raised(error) == [kind |-> "raised", id |-> 0, code |-> 0, body |-> Failure(error)]

\* Lines 396-412 and 414-501: initialize and tools/list.
InitializeResponse(id) == [kind |-> "result", id |-> id, code |-> 0, body |-> NoBody]

ToolsListResponse(id) ==
  [kind |-> "result", id |-> id, code |-> 0, body |-> [NoBody EXCEPT !.tools = ToolNames]]

\* Lines 385-394: the body of the request is no JSON object.
InvalidRequestResponse ==
  [kind |-> "error", id |-> 0, code |-> -32600, body |-> Failure("Invalid Request")]

\* Lines 540-541: any other method.
UnknownMethodResponse == Raised("400: Unknown method")

\* A handler that lets the exception through.
McpHandlerUnguarded(r) == r

\* mcp_handler and mcp_handler_alt (lines 226-245): an exception becomes the
\* plain object {"error": str(e)}, without jsonrpc, id or code.
McpHandler(r) ==
  IF r.kind = "raised"
  THEN [kind |-> "bare", id |-> 0, code |-> 0, body |-> r.body]
  ELSE r

\* ------------------------------------------------------------------ state
VARIABLES
  events,            \* the external calendar: the events, events[i].id = i
  calendar_service,  \* the cached client handle (0: None)
  credentials,       \* generation of the stored OAuth credentials (0: none)
  request,           \* the last request handled
  response,          \* the response to it
  calls,             \* the external calendar calls issued while handling it
  pre_events,        \* the calendar as it was when the request arrived
  matched            \* what the appointment matcher returned, if it ran

vars == <<events, calendar_service, credentials, request, response, calls,
          pre_events, matched>>

\* ------------------------------------------------------------------ inputs
Jansen == <<"J", "a", "n", "s", "e", "n">>

JansenMail == <<"j", "@", "x", ".", "n", "l">>

Controle == <<"c", "o", "n", "t", "r", "o", "l", "e">>

Verhinderd == <<"v", "e", "r", "h", "i", "n", "d", "e", "r", "d">>

T(hm, off) == [timed |-> TRUE, local |-> hm, off |-> off]

\* Events other users of the calendar may have put there (day 1, unless
\* said otherwise): the title, the start and the end.
Pool ==
  << \* 10:00-10:30, the title names the patient
     Event(0, AfspraakPrefix \o Jansen, <<>>,
           T(1440 + 600, 60), T(1440 + 630, 60), <<>>),
     \* 10:30-11:00 written in UTC, the patient is an attendee only
     Event(0, <<"C", "o", "n", "t", "r", "o", "l", "e">>, <<>>,
           T(1440 + 570, 0), T(1440 + 600, 0),
           <<[email |-> <<"i", "n", "f", "o", "@", "x">>, displayName |-> <<"D", "r">>],
             [email |-> <<"J", "A", "N", "S", "E", "N", "@", "x">>, displayName |-> <<>>]>>),
     \* 08:00-09:00, ends where the business hours start
     Event(0, <<"O", "v", "e", "r", "l", "e", "g">>, <<>>,
           T(1440 + 480, 60), T(1440 + 540, 60), <<>>),
     \* 09:15-09:45, across two slots, the title in capitals
     Event(0, <<"J", "A", "N", "S", "E", "N">>, <<>>,
           T(1440 + 555, 60), T(1440 + 585, 60), <<>>),
     \* an all-day event: 'date' only
     Event(0, <<"V", "r", "i", "j">>, <<>>, DateOnly(1), DateOnly(2), <<>>),
     \* from 23:00 the evening before to 18:00: the day is fully booked
     Event(0, <<"D", "i", "c", "h", "t">>, <<>>,
           T(1380, 60), T(1440 + 1080, 60), <<>>),
     \* 16:30-17:30, over the end of the business hours
     Event(0, <<"L", "a", "a", "t">>, <<>>,
           T(1440 + 990, 60), T(1440 + 1050, 60), <<>>),
     \* day 3 (summer time), 10:00-10:30 written in UTC
     Event(0, AfspraakPrefix \o Jansen, <<>>,
           T(3 * 1440 + 480, 0), T(3 * 1440 + 510, 0), <<>>) >>

\* The pool events numbered by I, as the calendar holds them: ids 1..n.
RECURSIVE CalendarOf(_, _)
CalendarOf(I, n) ==
  IF I = {} THEN <<>>
  ELSE LET k == CHOOSE x \in I : \A y \in I : x <= y
       IN  <<[Pool[k] EXCEPT !.id = n]>> \o CalendarOf(I \ {k}, n + 1)

InitialCalendars ==
  {CalendarOf(I, 1) : I \in {J \in SUBSET (1..Len(Pool)) : Cardinality(J) <= MaxExternal}}

NoArgs ==
  [patient_name |-> <<>>, patient_email |-> <<>>, patient_phone |-> <<>>,
   date |-> "", time |-> <<>>, appointment_type |-> <<>>, reason |-> <<>>,
   new_date |-> "", new_time |-> <<>>,
   start_date |-> "", end_date |-> "", event_id |-> 0]

DateTexts == {"2024-01-15", "2024-07-01", "15-01-2024"}

TimeTexts == {<<"1", "0", ":", "0", "0">>, <<"0", "8", ":", "1", "5">>,
              <<"2", "5", ":", "0", "0">>}

\* Complete bookings, and bookings with one required argument left out.
BookArguments ==
  LET full == {[NoArgs EXCEPT !.patient_name = Jansen, !.patient_email = JansenMail,
                  !.date = d, !.time = t, !.appointment_type = Controle] :
               d \in DateTexts, t \in TimeTexts}
      one == [NoArgs EXCEPT !.patient_name = Jansen, !.patient_email = JansenMail,
                !.date = "2024-01-15", !.time = <<"1", "0", ":", "0", "0">>,
                !.appointment_type = Controle]
  IN  full \cup {[one EXCEPT !.patient_name = <<>>], [one EXCEPT !.patient_email = <<>>],
                 [one EXCEPT !.date = ""], [one EXCEPT !.time = <<>>],
                 [one EXCEPT !.appointment_type = <<>>]}

CancelArguments ==
  LET one == [NoArgs EXCEPT !.patient_name = Jansen, !.date = "2024-01-15"]
  IN  {[one EXCEPT !.date = d, !.time = t, !.reason = Verhinderd] :
         d \in {"2024-01-15", "2024-07-01"}, t \in {<<>>, <<"1", "0", ":", "0", "0">>}}
      \cup {one, [one EXCEPT !.patient_name = <<>>], [one EXCEPT !.date = ""]}

RescheduleArguments ==
  LET one == [NoArgs EXCEPT !.patient_name = Jansen, !.date = "2024-01-15",
                !.new_date = "2024-01-15", !.new_time = <<"1", "1", ":", "0", "0">>]
  IN  {one,
       [one EXCEPT !.new_time = <<"1", "0", ":", "0", "0">>],
       [one EXCEPT !.time = <<"1", "0", ":", "0", "0">>],
       [one EXCEPT !.date = "2024-07-01", !.new_date = "2024-07-01"],
       [one EXCEPT !.new_date = "15-01-2024"],
       [one EXCEPT !.new_date = ""]}

\* An id no event of the calendar has.
UnknownEventId == 99

\* The JSON-RPC ids of the requests.
RequestIds == {7}

\* The most events the calendar holds.
MaxEvents == 3

\* The most generations of stored credentials.
MaxCredentials == 1

\* ------------------------------------------------------------------- Init
NoResponse == [kind |-> "none", id |-> 0, code |-> 0, body |-> NoBody]

\* shape: what the body of the request is: a JSON "object", an object whose
\* params.arguments is null ("null arguments"), an object whose params is
\* null ("null params"), a JSON "list", or "no json".
NoRequest ==
  [method |-> "none", id |-> 0, name |-> "", arguments |-> NoArgs, shape |-> "object"]

InitWith(calendars) ==
  /\ events \in calendars
  /\ calendar_service = 0
  /\ credentials \in {0, 1}
  /\ request = NoRequest
  /\ response = NoResponse
  /\ calls = <<>>
  /\ pre_events = events
  /\ matched = NoMatch

Init == InitWith(InitialCalendars)

InitEmpty == InitWith({<<>>})

\* ---------------------------------------------------------------- actions
\* A tools/call request handled from arrival to response.
HandleShaped(shape, id, name, args, out) ==
  /\ request' = [method |-> "tools/call", id |-> id, name |-> name, arguments |-> args,
                 shape |-> shape]
  /\ response' = McpHandler(ToolResponse(id, out))
  /\ events' = out.events
  /\ calendar_service' = out.cache
  /\ calls' = out.calls
  /\ pre_events' = events
  /\ matched' = out.matched
  /\ UNCHANGED credentials

Handle(id, name, args, out) == HandleShaped("object", id, name, args, out)

\* The actions take the set of request ids they draw from.
CheckSlotsOf(ids) ==
  \E id \in ids, d \in DateTexts \cup {""}, failing \in 0..1 :
    LET service == IF d = "" THEN calendar_service
                   ELSE GetCalendarService(calendar_service, credentials)
        r == CheckAvailableSlots(service, events, d, failing # 1)
    IN  Handle(id, "check_available_slots", [NoArgs EXCEPT !.date = d],
               Outcome(r.raised,
                       IF r.raised THEN Failure("Failed to check available slots")
                       ELSE [NoBody EXCEPT !.available_slots = r.available_slots],
                       events, r.calls, service, NoMatch))

CheckSlots == CheckSlotsOf(RequestIds)

\* failing: which of the request's external calls fails (0: none does).
\* most: the most events the calendar is let to hold.
BookOf(ids, most) ==
  /\ Len(events) < most
  /\ \E id \in ids, args \in BookArguments, failing \in 0..1 :
       Handle(id, "book_appointment", args,
              BookAppointment(calendar_service, credentials, events, args, failing # 1))

Book == BookOf(RequestIds, MaxEvents)

CancelOf(ids) ==
  \E id \in ids, args \in CancelArguments, failing \in 0..2 :
    Handle(id, "cancel_appointment", args,
           CancelAppointmentByPatient(calendar_service, credentials, events, args,
                                      failing # 1, failing # 2))

Cancel == CancelOf(RequestIds)

RescheduleOf(ids) ==
  \E id \in ids, args \in RescheduleArguments, failing \in 0..3 :
    Handle(id, "reschedule_appointment", args,
           RescheduleAppointmentByPatient(calendar_service, credentials, events, args,
                                          failing # 1, failing # 2, failing # 3))

Reschedule == RescheduleOf(RequestIds)

\* A callback that stores the new credentials and leaves the cached handle.
AuthCallbackKeepsHandle(generations) ==
  /\ credentials < generations
  /\ credentials' = credentials + 1
  /\ request' = [NoRequest EXCEPT !.method = "auth/callback"]
  /\ response' = NoResponse
  /\ calls' = <<>>
  /\ pre_events' = events
  /\ matched' = NoMatch
  /\ UNCHANGED <<events, calendar_service>>

\* /auth/callback with a code the token endpoint accepts: new credentials
\* are stored and the cached handle is dropped.
AuthCallbackUpTo(generations) ==
  /\ credentials < generations
  /\ credentials' = credentials + 1
  /\ calendar_service' = 0
  /\ request' = [NoRequest EXCEPT !.method = "auth/callback"]
  /\ response' = NoResponse
  /\ calls' = <<>>
  /\ pre_events' = events
  /\ matched' = NoMatch
  /\ UNCHANGED events

AuthCallback == AuthCallbackUpTo(MaxCredentials)

Next == CheckSlots \/ Book \/ Cancel \/ Reschedule \/ AuthCallback

Spec == Init /\ [][Next]_vars

\* The service started on an empty calendar.
SpecEmpty == InitEmpty /\ [][Next]_vars

\* ------------------------------------------------------ cancellation by id
\* The cancellation marks in front of a title.
RECURSIVE Cancellations(_)
Cancellations(summary) ==
  IF /\ Len(summary) >= Len(CancelPrefix)
     /\ SubSeq(summary, 1, Len(CancelPrefix)) = CancelPrefix
  THEN 1 + Cancellations(SubSeq(summary, Len(CancelPrefix) + 1, Len(summary)))
  ELSE 0

RECURSIVE AllCancellations(_)
AllCancellations(evs) ==
  IF evs = <<>> THEN 0
  ELSE Cancellations(Head(evs).summary) + AllCancellations(Tail(evs))

\* The most cancellations made in a calendar.
MaxCancellations == 2

\* The most events booked before they are cancelled by id.
MaxByIdEvents == 1

ByIdArguments ==
  {[NoArgs EXCEPT !.event_id = e, !.reason = r] :
     e \in {0, 1, 2, UnknownEventId}, r \in {<<>>, Verhinderd}}

\* cancel_appointment(args) run with the event_id a booking returned.
CancelById ==
  /\ AllCancellations(events) < MaxCancellations
  /\ \E args \in ByIdArguments, failing \in 0..2 :
       LET out == CancelAppointment(calendar_service, credentials, events, args,
                                    failing # 1, failing # 2)
       IN  /\ request' = [NoRequest EXCEPT !.method = "direct call",
                                           !.name = "cancel_appointment",
                                           !.arguments = args]
           /\ response' = IF out.raised THEN Raised(out.body.error)
                          ELSE [kind |-> "result", id |-> 0, code |-> 0, body |-> out.body]
           /\ events' = out.events
           /\ calendar_service' = out.cache
           /\ calls' = out.calls
           /\ pre_events' = events
           /\ matched' = NoMatch
           /\ UNCHANGED credentials

ByIdNext == BookOf(RequestIds, MaxByIdEvents) \/ CancelById \/ CheckSlots

\* Appointments booked, cancelled by id and looked for, from an empty
\* calendar on.
SpecById == InitEmpty /\ [][ByIdNext]_vars

\* ------------------------------------------------ the whole JSON-RPC surface
ListArguments ==
  LET one == [NoArgs EXCEPT !.start_date = "2024-01-15", !.end_date = "2024-07-01"]
  IN  {one, [one EXCEPT !.end_date = "2024-01-15"], [one EXCEPT !.start_date = ""],
       [one EXCEPT !.end_date = ""], [one EXCEPT !.end_date = "15-01-2024"]}

DetailsArguments == {[NoArgs EXCEPT !.event_id = e] : e \in {0, 1, UnknownEventId}}

ListOf(ids) ==
  \E id \in ids, args \in ListArguments, failing \in 0..1 :
    Handle(id, "list_appointments", args,
           ListAppointments(calendar_service, credentials, events, args, failing # 1))

DetailsOf(ids) ==
  \E id \in ids, args \in DetailsArguments, failing \in 0..1 :
    Handle(id, "get_appointment_details", args,
           GetAppointmentDetails(calendar_service, credentials, events, args, failing # 1))

\* tools/call with a name that is none of the six.
UnknownToolOf(ids) ==
  \E id \in ids :
    Handle(id, "delete_appointment", NoArgs, UnknownTool(events, calendar_service))

\* tools/call of one of the six with params.arguments null.
NullArgumentsOf(ids) ==
  \E id \in ids, name \in ToolNames :
    HandleShaped("null arguments", id, name, NoArgs,
                 NullArguments(name, events, calendar_service))

\* A request that is no tools/call, handled from arrival to response.
Answer(req, resp) ==
  /\ request' = req
  /\ response' = McpHandler(resp)
  /\ calls' = <<>>
  /\ pre_events' = events
  /\ matched' = NoMatch
  /\ UNCHANGED <<events, calendar_service, credentials>>

InitializeOf(ids) ==
  \E id \in ids :
    Answer([NoRequest EXCEPT !.method = "initialize", !.id = id], InitializeResponse(id))

ToolsListOf(ids) ==
  \E id \in ids :
    Answer([NoRequest EXCEPT !.method = "tools/list", !.id = id], ToolsListResponse(id))

UnknownMethodOf(ids) ==
  \E id \in ids :
    Answer([NoRequest EXCEPT !.method = "resources/list", !.id = id], UnknownMethodResponse)

\* tools/call with params null: params.get("name") raises AttributeError at
\* line 504, before the try block of the tools/call branch.
NullParamsOf(ids) ==
  \E id \in ids :
    Answer([NoRequest EXCEPT !.method = "tools/call", !.id = id, !.shape = "null params"],
           Raised("AttributeError"))

\* The body is a JSON list: no method or id can be read from it.
NotAnObject == Answer([NoRequest EXCEPT !.shape = "list"], InvalidRequestResponse)

\* The body is no JSON at all: request.json() raises.
NotJson == Answer([NoRequest EXCEPT !.shape = "no json"], Raised("JSONDecodeError"))

\* GET /status (lines 208-224): reports whether a client handle can be had,
\* and so builds and caches one.
Status ==
  /\ calendar_service' = GetCalendarService(calendar_service, credentials)
  /\ request' = [NoRequest EXCEPT !.method = "status"]
  /\ response' = NoResponse
  /\ calls' = <<>>
  /\ pre_events' = events
  /\ matched' = NoMatch
  /\ UNCHANGED <<events, credentials>>

RpcIds == {7, 8}

\* The most generations of stored credentials on the JSON-RPC surface.
MaxRenewals == 2

\* The most events the calendar holds there.
MaxRpcEvents == 1

RpcNext ==
  \/ CheckSlotsOf(RpcIds) \/ BookOf(RpcIds, MaxRpcEvents) \/ ListOf(RpcIds) \/ DetailsOf(RpcIds)
  \/ CancelOf(RpcIds) \/ RescheduleOf(RpcIds)
  \/ UnknownToolOf(RpcIds) \/ NullArgumentsOf(RpcIds) \/ NullParamsOf(RpcIds)
  \/ InitializeOf(RpcIds) \/ ToolsListOf(RpcIds) \/ UnknownMethodOf(RpcIds)
  \/ NotAnObject \/ NotJson
  \/ Status
  \/ AuthCallbackUpTo(MaxRenewals)

\* Every kind of request, with two ids, on a calendar that starts empty.
SpecRpc == InitEmpty /\ [][RpcNext]_vars

\* ------------------------------------------------------------- properties
\* What the properties below speak about, stated without the operators of
\* the slot finder and the matcher.
IsCall(name) == request.method = "tools/call" /\ request.name = name

\* The offset of the clinic's time zone on the two dates: CET in January,
\* CEST in July.
ClinicOffset(day) == IF day = 1 THEN 60 ELSE 120

\* The 16 candidate slot starts 09:00, 09:30, ..., 16:30 (minute of the day).
CandidateMinutes == {540 + 30 * k : k \in 0..15}

StartInstant(e) == e.start.local - e.start.off

EndInstant(e) == e["end"].local - e["end"].off

IsTimed(e) == e.start.timed /\ e["end"].timed

\* The timed events of a calendar.
TimedEvents(evs) == {evs[i] : i \in {j \in 1..Len(evs) : IsTimed(evs[j])}}

\* Event e and the slot of `day` starting at minute m overlap as half-open
\* intervals.
Covers(e, day, m) ==
  /\ day * 1440 + m - ClinicOffset(day) < EndInstant(e)
  /\ day * 1440 + m + 30 - ClinicOffset(day) > StartInstant(e)

ReturnedSlots == response.body.available_slots

ReturnedMinutes == {ParseHM(ReturnedSlots[k].time) : k \in 1..Len(ReturnedSlots)}

\* The events().list call of the request was answered.
ListAnswered == calls = <<Call("list", TRUE)>>

\* C1: in a slot list check_available_slots returns, a candidate slot of
\* the requested date is left out exactly when some timed event overlaps it
\* as a half-open interval (touching is no overlap); with the one event
\* 10:00-10:30 the list has 15 slots and lacks 10:00 only.
C1_SlotOmittedIffOverlap ==
  (IsCall("check_available_slots") /\ response.kind = "result") =>
    LET day == ParseYmd(request.arguments.date)
    IN  /\ \A m \in CandidateMinutes :
             (m \notin ReturnedMinutes) <=>
               (\E e \in TimedEvents(events) : Covers(e, day, m))
        /\ ( /\ Len(events) = 1
             /\ IsTimed(events[1])
             /\ StartInstant(events[1]) = day * 1440 + 600 - ClinicOffset(day)
             /\ EndInstant(events[1]) = day * 1440 + 630 - ClinicOffset(day) )
           => /\ Len(ReturnedSlots) = 15
              /\ ReturnedMinutes = CandidateMinutes \ {600}

\* C1 witness: the one event 10:00-10:30 on the requested winter date, and
\* a list of 15 slots with 09:30 and 10:30 in it and 10:00 not.
C1_Witness ==
  /\ IsCall("check_available_slots")
  /\ response.kind = "result"
  /\ request.arguments.date = "2024-01-15"
  /\ Len(events) = 1
  /\ IsTimed(events[1])
  /\ events[1].start.local = 1440 + 600
  /\ events[1]["end"].local = 1440 + 630
  /\ events[1].start.off = 60
  /\ Len(ReturnedSlots) = 15
  /\ \E k \in 1..15 : ReturnedSlots[k].time = <<"0", "9", ":", "3", "0">>
  /\ \E k \in 1..15 : ReturnedSlots[k].time = <<"1", "0", ":", "3", "0">>
  /\ \A k \in 1..15 : ReturnedSlots[k].time # <<"1", "0", ":", "0", "0">>

\* No event reaches into the business hours of `day`.
NothingOn(evs, day) ==
  \A i \in 1..Len(evs) :
    \/ InstantOf(evs[i]["end"]) <= day * 1440 + 540 - ClinicOffset(day)
    \/ InstantOf(evs[i].start) >= day * 1440 + 1020 - ClinicOffset(day)

\* C2: an answered check_available_slots request gives exactly the 16 slots
\* 09:00, 09:30, ..., 16:30 when no event lies in the business hours of the
\* date; every slot list returned is a strictly increasing selection of
\* these 16; and when timed events cover every candidate the answer is a
\* result with an empty list, not an error.
C2_SixteenOrderedSlots ==
  IsCall("check_available_slots") =>
    LET day == ParseYmd(request.arguments.date)
    IN  /\ response.kind = "result" =>
             /\ \A k \in 1..Len(ReturnedSlots) :
                  ParseHM(ReturnedSlots[k].time) \in CandidateMinutes
             /\ \A k \in 1..(Len(ReturnedSlots) - 1) :
                  /\ ParseHM(ReturnedSlots[k].time) < ParseHM(ReturnedSlots[k + 1].time)
                  /\ ReturnedSlots[k].datetime.local - ReturnedSlots[k].datetime.off
                       < ReturnedSlots[k + 1].datetime.local - ReturnedSlots[k + 1].datetime.off
        /\ (ListAnswered /\ NothingOn(events, day)) =>
             /\ response.kind = "result"
             /\ Len(ReturnedSlots) = 16
             /\ \A k \in 1..16 : ReturnedSlots[k].time = FormatHM(540 + 30 * (k - 1))
        /\ ( /\ ListAnswered
             /\ \A i \in 1..Len(events) : IsTimed(events[i])
             /\ \A m \in CandidateMinutes :
                  \E e \in TimedEvents(events) : Covers(e, day, m) )
           => response.kind = "result" /\ ReturnedSlots = <<>>

\* C2 witness: a summer date without events, 16 slots from 09:00 to 16:30.
C2_Witness ==
  /\ IsCall("check_available_slots")
  /\ request.arguments.date = "2024-07-01"
  /\ events = <<>>
  /\ response.kind = "result"
  /\ Len(ReturnedSlots) = 16
  /\ ReturnedSlots[1].time = <<"0", "9", ":", "0", "0">>
  /\ ReturnedSlots[16].time = <<"1", "6", ":", "3", "0">>

\* The request reached the appointment matcher: a cancel or reschedule call
\* with its required arguments, handled with a calendar client at hand and
\* no failing external call.
Args == request.arguments

LookedUp(name) ==
  /\ IsCall(name)
  /\ Args.patient_name # <<>>
  /\ ParseYmd(Args.date) > 0
  /\ name = "reschedule_appointment" => Args.new_date # "" /\ Args.new_time # <<>>
  /\ calendar_service # 0
  /\ \A k \in 1..Len(calls) : calls[k].ok

\* The patient name is, case-insensitively, part of the title or of an
\* attendee's email or display name.
NameMatches(e, name) ==
  \/ Contains(Lower(e.summary), Lower(name))
  \/ \E k \in 1..Len(e.attendees) :
       \/ Contains(Lower(e.attendees[k].email), Lower(name))
       \/ Contains(Lower(e.attendees[k].displayName), Lower(name))

\* Event e lies on `day` of the clinic's calendar.
OnDate(e, day) ==
  /\ InstantOf(e["end"]) > day * 1440 - ClinicOffset(day)
  /\ InstantOf(e.start) < (day + 1) * 1440 - ClinicOffset(day)

\* Event e starts at the wall-clock time t of the clinic on `day`.
StartsAt(e, day, t) ==
  e.start.timed /\ StartInstant(e) = day * 1440 + ParseHM(t) - ClinicOffset(day)

\* The distinct events of the calendar at arrival that the request's
\* patient name, date and (when given) time identify.
Matching ==
  {e \in {pre_events[i] : i \in 1..Len(pre_events)} :
     /\ OnDate(e, ParseYmd(Args.date))
     /\ NameMatches(e, Args.patient_name)
     /\ Args.time # <<>> => StartsAt(e, ParseYmd(Args.date), Args.time)}

FirstOf(S) == CHOOSE a \in S : \A b \in S \ {a} : Earlier(a, b)

Wrote == \E k \in 1..Len(calls) : calls[k].op \in {"update", "patch", "insert"}

\* C3 (as claimed): with no time filter and exactly one event of the date
\* matching the patient name, the matcher returns that event, unflagged.
C3_SoleMatchReturned ==
  \A name \in {"cancel_appointment", "reschedule_appointment"} :
    (LookedUp(name) /\ Args.time = <<>> /\ Cardinality(Matching) = 1) =>
      matched = [found |-> TRUE, event |-> FirstOf(Matching), multiple_matches |-> 0]

\* C4 (as claimed): with no time filter and k >= 2 distinct matching events
\* the matcher returns the first in start order, flagged with the count k.
C4_MultipleMatchesCounted ==
  \A name \in {"cancel_appointment", "reschedule_appointment"} :
    (LookedUp(name) /\ Args.time = <<>> /\ Cardinality(Matching) >= 2) =>
      /\ matched.found
      /\ matched.event = FirstOf(Matching)
      /\ matched.multiple_matches = Cardinality(Matching)

\* C5 (as claimed): cancel and reschedule write only for exactly one match;
\* no match is answered with the result "Appointment not found", several
\* with a multiple-matches result, and neither writes or changes an event.
C5_WriteOnlyOnSingleMatch ==
  \A name \in {"cancel_appointment", "reschedule_appointment"} :
    LookedUp(name) =>
      /\ Wrote => Cardinality(Matching) = 1
      /\ Cardinality(Matching) = 0 =>
           /\ response.kind = "result"
           /\ response.body.error = "Appointment not found"
           /\ ~Wrote /\ events = pre_events
      /\ Cardinality(Matching) > 1 =>
           /\ response.kind = "result"
           /\ response.body.multiple_matches
           /\ ~Wrote /\ events = pre_events

\* The slot of the new date and time is taken by an event of the calendar.
NewDay == ParseYmd(Args.new_date)

NewSlotTaken ==
  \E e \in TimedEvents(pre_events) : Covers(e, NewDay, ParseHM(Args.new_time))

\* The free candidate slots of the new date, as clock texts.
FreeTimes ==
  {FormatHM(m) : m \in {c \in CandidateMinutes :
     \A e \in TimedEvents(pre_events) : ~Covers(e, NewDay, c)}}

\* C6 (as claimed): a reschedule that found exactly one appointment and whose
\* new time is taken fails with "Time slot not available", lists free times
\* of the new date, writes nothing and leaves the calendar as it was.
C6_TakenSlotRefused ==
  ( /\ LookedUp("reschedule_appointment")
    /\ Cardinality(Matching) = 1
    /\ NewDay > 0 /\ ParseHM(Args.new_time) >= 0
    /\ \A i \in 1..Len(pre_events) : IsTimed(pre_events[i])
    /\ NewSlotTaken )
  => /\ response.kind = "result"
     /\ response.body.success = "false"
     /\ response.body.error = "Time slot not available"
     /\ \A k \in 1..Len(response.body.suggested_times) :
          response.body.suggested_times[k] \in FreeTimes
     /\ FreeTimes # {} => response.body.suggested_times # <<>>
     /\ ~Wrote /\ events = pre_events

\* C7 (as claimed): a reschedule that found exactly one appointment and whose
\* new time is free succeeds; the same event then starts at the new date and
\* time of the clinic and ends 30 minutes later, the others are unchanged.
C7_FreeSlotMoved ==
  ( /\ LookedUp("reschedule_appointment")
    /\ Cardinality(Matching) = 1
    /\ NewDay > 0 /\ ParseHM(Args.new_time) \in CandidateMinutes
    /\ \A i \in 1..Len(pre_events) : IsTimed(pre_events[i])
    /\ ~NewSlotTaken )
  => LET id == FirstOf(Matching).id
         s == NewDay * 1440 + ParseHM(Args.new_time) - ClinicOffset(NewDay)
     IN  /\ response.kind = "result"
         /\ response.body.success = "true"
         /\ Len(events) = Len(pre_events)
         /\ events[id].id = id
         /\ IsTimed(events[id])
         /\ StartInstant(events[id]) = s
         /\ EndInstant(events[id]) = s + 30
         /\ \A i \in 1..Len(events) : i # id => events[i] = pre_events[i]

\* C8 (as claimed): a cancel that identifies exactly one appointment
\* succeeds; the event stays, its title is the old one behind the
\* cancellation prefix, its description holds the reason, its times stay.
C8_CancelMarksEvent ==
  (LookedUp("cancel_appointment") /\ Cardinality(Matching) = 1) =>
    LET old == FirstOf(Matching)
        new == events[old.id]
    IN  /\ response.kind = "result"
        /\ response.body.success = "true"
        /\ Len(events) = Len(pre_events)
        /\ new.id = old.id
        /\ new.summary = CancelPrefix \o old.summary
        /\ Contains(new.description,
                    IF Args.reason = <<>> THEN DefaultReason ELSE Args.reason)
        /\ new.start = old.start
        /\ new["end"] = old["end"]

\* C9 (as claimed): from an empty calendar on, every event spans exactly 30
\* minutes, starts on the hour or half hour of the clinic's clock and lies
\* within 09:00-17:00.
C9_EveryEventIsASlot ==
  \A i \in 1..Len(events) :
    LET e == events[i]
        minute == (StartInstant(e) + AmsOffsetOfUtc(StartInstant(e))) % 1440
    IN  /\ IsTimed(e)
        /\ EndInstant(e) - StartInstant(e) = 30
        /\ minute % 30 = 0
        /\ minute >= 540
        /\ minute + 30 <= 1020

\* What C10 says a booking does: one create call and no other; one event
\* more, from the date and time in the clinic's zone to 30 minutes later;
\* the events before untouched; the new event's id returned.
BookedAsAsked ==
  LET day == ParseYmd(Args.date)
      new == events[Len(events)]
  IN  /\ calls = <<Call("insert", TRUE)>>
      /\ Len(events) = Len(pre_events) + 1
      /\ \A i \in 1..Len(pre_events) : events[i] = pre_events[i]
      /\ IsTimed(new)
      /\ new.start.local = day * 1440 + ParseHM(Args.time)
      /\ new.start.off = ClinicOffset(day)
      /\ EndInstant(new) = StartInstant(new) + 30
      /\ response.kind = "result"
      /\ response.body.event_id = new.id
      /\ \A i \in 1..Len(pre_events) : pre_events[i].id # new.id

AllGiven ==
  /\ Args.patient_name # <<>> /\ Args.patient_email # <<>> /\ Args.date # ""
  /\ Args.time # <<>> /\ Args.appointment_type # <<>>

\* C10 (as claimed): every book_appointment call with the five required
\* arguments non-empty books as asked.
C10_AnyCompleteBookingBooks ==
  (IsCall("book_appointment") /\ AllGiven) => BookedAsAsked

\* C10 (amended): a book_appointment call with the five required arguments
\* non-empty, a date that reads as YYYY-MM-DD and a time that reads as
\* HH:MM, made with a calendar client at hand and a create call that does
\* not fail, books as asked.
C10_ValidBookingBooks ==
  ( /\ IsCall("book_appointment") /\ AllGiven
    /\ ParseYmd(Args.date) > 0 /\ ParseHM(Args.time) >= 0
    /\ calendar_service # 0
    /\ calls # <<Call("insert", FALSE)>> )
  => BookedAsAsked

\* C10 witness: a booking on the summer date added behind an earlier event.
C10_Witness ==
  /\ IsCall("book_appointment")
  /\ Args.date = "2024-07-01"
  /\ Args.time = <<"1", "0", ":", "0", "0">>
  /\ Len(pre_events) >= 1
  /\ BookedAsAsked
  /\ events[Len(events)].start = T(3 * 1440 + 600, 120)
  /\ events[Len(events)]["end"] = T(3 * 1440 + 630, 120)

\* The booking asked for is valid and was answered: the conditions under
\* which C10 has a booking succeed.
ValidBookingAnswered ==
  /\ IsCall("book_appointment") /\ AllGiven
  /\ ParseYmd(Args.date) > 0 /\ ParseHM(Args.time) >= 0
  /\ calendar_service # 0
  /\ calls # <<Call("insert", FALSE)>>

\* Events a and b lie on the same interval.
SameInterval(a, b) ==
  /\ IsTimed(a) /\ IsTimed(b)
  /\ StartInstant(a) = StartInstant(b)
  /\ EndInstant(a) = EndInstant(b)

\* The event is one book_appointment created.
IsBooked(e) ==
  /\ Len(e.summary) > Len(AfspraakPrefix)
  /\ SubSeq(e.summary, 1, Len(AfspraakPrefix)) = AfspraakPrefix
  /\ e.description # <<>>

\* C11: book_appointment does not look at the calendar.  A request is
\* handled from arrival to response without a point of suspension, so two
\* requests are handled one after the other in either order; the later of
\* two valid, answered bookings of the same date and time succeeds although
\* the calendar already holds an event on exactly that interval, it issues
\* the create call only, and the calendar then holds two events with
\* different ids on the same 30 minutes.
C11_SameSlotBookedTwice ==
  \A i \in 1..Len(pre_events) :
    ( /\ ValidBookingAnswered
      /\ IsTimed(pre_events[i])
      /\ StartInstant(pre_events[i])
           = ParseYmd(Args.date) * 1440 + ParseHM(Args.time)
               - ClinicOffset(ParseYmd(Args.date))
      /\ EndInstant(pre_events[i]) = StartInstant(pre_events[i]) + 30 )
    => /\ response.kind = "result"
       /\ response.body.success = "true"
       /\ calls = <<Call("insert", TRUE)>>
       /\ Len(events) = Len(pre_events) + 1
       /\ events[i] = pre_events[i]
       /\ SameInterval(events[i], events[Len(events)])
       /\ events[i].id # events[Len(events)].id

\* C11 witness: two bookings of 2024-01-15 10:00, the second just answered
\* with success, both events in the calendar.
C11_Witness ==
  /\ IsCall("book_appointment")
  /\ response.kind = "result"
  /\ response.body.success = "true"
  /\ Len(events) >= 2
  /\ IsBooked(events[Len(events) - 1])
  /\ IsBooked(events[Len(events)])
  /\ events[Len(events)].start = T(1440 + 600, 60)
  /\ SameInterval(events[Len(events) - 1], events[Len(events)])
  /\ events[Len(events) - 1].id # events[Len(events)].id
  /\ response.body.event_id = events[Len(events)].id

\* A tools/call of one of the six tools whose arguments are a JSON object.
IsToolCall ==
  /\ request.method = "tools/call"
  /\ request.name \in ToolNames
  /\ request.shape = "object"

\* The arguments lack, or give empty, an argument the tool's inputSchema
\* lists under "required" (lines 428, 444, 456, 467, 481, 496).
MissingRequired ==
  CASE request.name = "check_available_slots" -> Args.date = ""
    [] request.name = "book_appointment" ->
         \/ Args.patient_name = <<>> \/ Args.patient_email = <<>> \/ Args.date = ""
         \/ Args.time = <<>> \/ Args.appointment_type = <<>>
    [] request.name = "list_appointments" -> Args.start_date = "" \/ Args.end_date = ""
    [] request.name = "get_appointment_details" -> Args.event_id = 0
    [] request.name = "cancel_appointment" -> Args.patient_name = <<>> \/ Args.date = ""
    [] request.name = "reschedule_appointment" ->
         \/ Args.patient_name = <<>> \/ Args.date = ""
         \/ Args.new_date = "" \/ Args.new_time = <<>>
    [] OTHER -> FALSE

\* The texts that say which argument is wanted.
ValidationMessages ==
  {"Failed to check available slots", "All fields are required",
   "Start date and end date are required", "Event ID is required",
   "Patient name and appointment date are required", "Missing required parameters"}

\* C12: a tools/call of any of the six tools that lacks a required argument
\* (or gives it empty) is answered with a failure - a JSON-RPC error, or a
\* result saying success false - that carries a message about the missing
\* argument; no external calendar call is issued, the calendar is as it
\* was, and the service can handle a further request.
C12_MissingArgumentRefused ==
  (IsToolCall /\ MissingRequired) =>
    /\ \/ response.kind = "error"
       \/ response.kind = "result" /\ response.body.success = "false"
    /\ response.id = request.id
    /\ response.body.error \in ValidationMessages
    /\ calls = <<>>
    /\ events = pre_events
    /\ ENABLED InitializeOf(RpcIds)

\* C12 witness: a cancel_appointment without a date, on a calendar that
\* holds an event and with a client handle cached: refused without a call.
C12_Witness ==
  /\ IsCall("cancel_appointment")
  /\ Args.patient_name = Jansen
  /\ Args.date = ""
  /\ Len(events) = 1
  /\ calendar_service # 0
  /\ response.kind = "result"
  /\ response.body.success = "false"
  /\ response.body.error = "Patient name and appointment date are required"
  /\ calls = <<>>

\* The request needed the calendar and did not get it: no client handle
\* could be had, or an external call it issued failed.
CalendarFailed ==
  /\ IsToolCall
  /\ ~MissingRequired
  /\ \/ calendar_service = 0
     \/ \E k \in 1..Len(calls) : ~calls[k].ok

\* C13 (as claimed): for each of the six tools, a tools/call handled while
\* the calendar is unavailable, or with a failing external call, is answered
\* with a JSON-RPC error and no result; a failed lookup in cancel_appointment
\* or reschedule_appointment is not answered "Appointment not found".
C13_CalendarFailureIsError ==
  CalendarFailed =>
    /\ response.kind = "error"
    /\ response.id = request.id
    /\ response.body.error # "Appointment not found"

\* A JSON-RPC request with one of the three methods the service knows; its
\* params are an object, whatever name and arguments they hold.
KnownMethod ==
  /\ request.method \in {"initialize", "tools/list", "tools/call"}
  /\ request.shape \in {"object", "null arguments"}

\* The response is a JSON-RPC response to the request: the request's id and
\* either a result or an error object with a code and a message.  (kind
\* "bare" is the plain {"error": text} of mcp_handler: neither.)
WellFormedResponse ==
  /\ response.id = request.id
  /\ \/ response.kind = "result" /\ response.code = 0
     \/ /\ response.kind = "error"
        /\ response.code \in {-32603, -32600}
        /\ response.body.error # ""

Handled == request # NoRequest /\ request.method \notin {"auth/callback", "status"}

\* C15: whatever the request - any method, any tool name, any arguments, a
\* body that is no object or no JSON, any outcome of the external calls -
\* the handler returns a response object: a JSON-RPC result or error, or the
\* plain {"error": text} into which mcp_handler turns an exception; no
\* exception leaves the handler, and a further request can be handled.
C15_AlwaysAResponse ==
  Handled =>
    /\ response.kind \in {"result", "error", "bare"}
    /\ response.kind = "bare" => response.body.error # ""
    /\ ENABLED ToolsListOf(RpcIds)

\* C15 witness: a request with an unknown method; the HTTPException of line
\* 541 comes back as the plain error object.
C15_Witness ==
  /\ request.method = "resources/list"
  /\ request.id = 7
  /\ response.kind = "bare"
  /\ response.body.error = "400: Unknown method"
  /\ Len(events) = 1

\* C16: the cached client handle is empty or was built from the credentials
\* stored now, never from credentials a callback has replaced.  Step by
\* step: a cached handle is kept by every request that is no callback
\* (reuse); a handle appears only while a tool call or /status asks for it
\* (lazy), and is then built from the stored credentials; a successful
\* /auth/callback stores new credentials and leaves the cache empty; and
\* with no credentials stored the build fails and the cache stays empty, so
\* the first call after credentials arrive builds the handle.
C16_HandleFollowsCredentials ==
  /\ [](calendar_service \in {0, credentials})
  /\ [][ /\ (calendar_service # 0 /\ credentials' = credentials)
              => calendar_service' = calendar_service
         /\ (calendar_service = 0 /\ calendar_service' # 0)
              => /\ request'.method \in {"tools/call", "status"}
                 /\ calendar_service' = credentials
                 /\ credentials' = credentials
         /\ credentials' # credentials
              => /\ request'.method = "auth/callback"
                 /\ calendar_service' = 0
         /\ (credentials = 0 /\ credentials' = 0) => calendar_service' = 0
         /\ ( /\ calendar_service = 0 /\ credentials # 0
              /\ request'.method = "status" )
              => calendar_service' = credentials ]_vars

\* C16 witness: credentials renewed for the second time, and a booking made
\* since with a handle built from them.
C16_Witness ==
  /\ credentials = 2
  /\ calendar_service = 2
  /\ IsCall("book_appointment")
  /\ response.kind = "result"
  /\ calls = <<Call("insert", TRUE)>>

Fetched(day) ==
  {e \in {events[i] : i \in 1..Len(events)} :
     /\ InstantOf(e["end"]) > day * 1440 + 540 - ClinicOffset(day)
     /\ InstantOf(e.start) < day * 1440 + 1020 - ClinicOffset(day)}

Untimed(day) == {e \in Fetched(day) : ~IsTimed(e)}

\* An answered check_available_slots request whose fetched list holds an
\* event without timed start and end.
UntimedFetched ==
  /\ IsCall("check_available_slots")
  /\ ParseYmd(Args.date) > 0
  /\ ListAnswered
  /\ Untimed(ParseYmd(Args.date)) # {}

\* C18 (as claimed): whenever the fetched list holds an untimed event the
\* answer is an error and never a slot list, whatever else is in the list
\* and wherever the untimed event stands.
C18_UntimedAlwaysError ==
  UntimedFetched => response.kind = "error"

\* C18 (amended): when the fetched list holds an untimed event, the answer is
\* an error exactly when some candidate slot is not overlapped by a timed
\* event that stands in the list before the first untimed event; when every
\* slot is overlapped by such an event the scan of each slot stops before it
\* reaches the untimed event, and the answer is a result with an empty list.
C18_UntimedErrorUnlessShadowed ==
  UntimedFetched =>
    LET day == ParseYmd(Args.date)
        u == FirstOf(Untimed(day))
        Shadowed(m) ==
          \E e \in Fetched(day) : IsTimed(e) /\ Earlier(e, u) /\ Covers(e, day, m)
    IN  /\ response.kind = "error" <=> (\E m \in CandidateMinutes : ~Shadowed(m))
        /\ response.kind = "result" => ReturnedSlots = <<>>

\* C18 witness: an all-day event and the appointment 10:00-10:30 on the
\* requested date: an error, whichever of the two was created first.
C18_Witness ==
  /\ IsCall("check_available_slots")
  /\ Args.date = "2024-01-15"
  /\ ListAnswered
  /\ Len(events) = 2
  /\ \E i, j \in 1..2 :
       /\ ~IsTimed(events[i])
       /\ IsTimed(events[j])
       /\ Covers(events[j], 1, 600)
       /\ ~Covers(events[j], 1, 540)
  /\ response.kind = "error"

\* C19: cancellation does not free the slot.  In every slot list
\* check_available_slots returns, no candidate slot is offered that a
\* cancelled appointment still in the calendar overlaps: the slot finder
\* reads start and end of the events and not their titles.
C19_CancelledStillBlocks ==
  (IsCall("check_available_slots") /\ response.kind = "result") =>
    \A i \in 1..Len(events) :
      (Cancellations(events[i].summary) > 0 /\ IsTimed(events[i])) =>
        \A m \in CandidateMinutes :
          Covers(events[i], ParseYmd(Args.date), m) => m \notin ReturnedMinutes

\* C19 witness: the appointment of 2024-01-15 10:00 booked and cancelled,
\* the only event of the calendar; the slots of that date are the 15
\* without 10:00.
C19_Witness ==
  /\ IsCall("check_available_slots")
  /\ Args.date = "2024-01-15"
  /\ response.kind = "result"
  /\ Len(events) = 1
  /\ IsBooked([events[1] EXCEPT !.summary =
                 SubSeq(events[1].summary, Len(CancelPrefix) + 1, Len(events[1].summary))])
  /\ Cancellations(events[1].summary) = 1
  /\ events[1].start = T(1440 + 600, 60)
  /\ Len(ReturnedSlots) = 15
  /\ 600 \notin ReturnedMinutes
  /\ 630 \in ReturnedMinutes

\* The piece of text a cancellation puts before the reason.
ReasonMark == "\n\nReden annulering: "

\* The reason notes of a description, in order, and the text before them.
RECURSIVE Notes(_)
Notes(description) ==
  LET marks == {i \in 1..Len(description) : description[i] = ReasonMark}
  IN  IF marks = {} THEN <<>>
      ELSE LET last == CHOOSE i \in marks : \A j \in marks : j <= i
           IN  Append(Notes(SubSeq(description, 1, last - 1)),
                      SubSeq(description, last + 1, Len(description)))

TextBeforeNotes(description) ==
  LET marks == {i \in 1..Len(description) : description[i] = ReasonMark}
  IN  IF marks = {} THEN description
      ELSE SubSeq(description, 1, (CHOOSE i \in marks : \A j \in marks : i <= j) - 1)

\* The title behind its cancellation marks.
RECURSIVE TitleBehindMarks(_)
TitleBehindMarks(summary) ==
  IF Cancellations(summary) = 0 THEN summary
  ELSE TitleBehindMarks(SubSeq(summary, Len(CancelPrefix) + 1, Len(summary)))

\* C20: cancellation is append-only, not idempotent.  Every successful
\* cancellation of an event puts one more mark in front of its title and
\* one more reason note behind its description, keeps the title, the text
\* and the notes that were there, in their order, and touches nothing else;
\* so every event carries as many marks as notes.
C20_CancellationsAccumulate ==
  /\ [](\A i \in 1..Len(events) :
          Cancellations(events[i].summary) = Len(Notes(events[i].description)))
  /\ [][ ( /\ request'.method = "direct call"
           /\ response'.kind = "result"
           /\ response'.body.success = "true" )
         => LET id == request'.arguments.event_id
                reason == IF request'.arguments.reason = <<>> THEN DefaultReason
                          ELSE request'.arguments.reason
                old == events[id]
                new == events'[id]
            IN  /\ id \in 1..Len(events)
                /\ Len(events') = Len(events)
                /\ \A i \in 1..Len(events) : i # id => events'[i] = events[i]
                /\ Cancellations(new.summary) = Cancellations(old.summary) + 1
                /\ TitleBehindMarks(new.summary) = TitleBehindMarks(old.summary)
                /\ Notes(new.description) = Append(Notes(old.description), reason)
                /\ TextBeforeNotes(new.description) = TextBeforeNotes(old.description)
                /\ new.start = old.start
                /\ new["end"] = old["end"]
                /\ new.attendees = old.attendees ]_vars

\* C20 witness: the same booking cancelled twice, first with a reason given
\* and then without: two marks before the booked title, the two notes in
\* that order behind the booked description.
C20_Witness ==
  /\ request.method = "direct call"
  /\ response.kind = "result"
  /\ Len(events) >= 1
  /\ events[1].summary = CancelPrefix \o CancelPrefix \o AfspraakPrefix \o Jansen
  /\ Notes(events[1].description) = <<Verhinderd, DefaultReason>>
  /\ TextBeforeNotes(events[1].description) # <<>>
  /\ Cancellations(events[1].summary) = 2
====
